---- MODULE Spec2Model ----
(***************************************************************************)
(* FiskEat client core: the MenuPage component (menu snapshot, flag        *)
(* toggling, nutrition selection list), the NutritionCalculator panel's    *)
(* save effect and the localStorage helpers of nutritionStorage.ts.        *)
(*                                                                         *)
(* One action is one event handler or one network completion together     *)
(* with the re-render it causes and the effects that re-render runs        *)
(* (child component effects first, then MenuPage's effects in source       *)
(* order).  Strings that the code trims, lower-cases or interpolates are   *)
(* sequences of one-character strings; a Date is a tick count and          *)
(* format(d, 'yyyy-MM-dd') is the day the tick falls in.                   *)
(***************************************************************************)
EXTENDS Integers, Sequences, FiniteSets, Bags, TLC

VARIABLES
    phase,            \* "unmounted" | "running" | "crashed" (an error escaped an effect or a handler)
    now,              \* the wall clock, in ticks (what new Date() returns)
    selectedDate,     \* useState<Date>
    menuData,         \* useState<MenuData | null>
    loading,          \* useState(false)
    error,            \* useState<string | null>
    selectedItems,    \* useState<FoodItem[]>
    isCalculatorOpen, \* useState(false)
    flaggingItemId,   \* useState<string | null>
    actionFeedback,   \* useState<{type, message} | null>
    storage,          \* localStorage['nutrition-selections']
    flagRequests,     \* bag of POST /flag requests in flight
    menuRequests,     \* bag of GET /menu requests in flight
    storageFails,     \* localStorage refuses access: getItem, setItem and removeItem throw
    dietaryFilters,   \* useState<Set<'vegetarian' | 'vegan'>>
    allergenFilters,  \* useState<Set<string>>
    nutritionGoals,   \* useState<NutritionGoals>: the committed goals
    draftGoals,       \* NutritionGoalsModal's useState(currentGoals), NULL while unmounted
    showGoalsModal,   \* NutritionCalculator's useState(false)
    goalsStorage,     \* localStorage['nutrition-goals']
    bannerTimers,     \* pending window.setTimeout callbacks of the banner effect
    lastOp            \* history: the inputs and result of the operation that ran last

vars == <<phase, now, selectedDate, menuData, loading, error, selectedItems,
          isCalculatorOpen, flaggingItemId, actionFeedback, storage,
          flagRequests, menuRequests, storageFails, dietaryFilters,
          allergenFilters, nutritionGoals, draftGoals, showGoalsModal,
          goalsStorage, bannerTimers, lastOp>>

goalsVars == <<nutritionGoals, draftGoals, showGoalsModal, goalsStorage>>

----------------------------------------------------------------------------
(* Bounds of the model *)

MaxSel == 2        \* longest selection list explored
MaxFlagReq == 2    \* most flag requests in flight at once
MaxMenuReq == 1    \* most menu requests in flight at once
MaxOverlap == 2    \* most menu requests in flight at once where fetches overlap
MaxNow == 2        \* last clock tick explored

TicksPerDay == 2   \* resolution of the clock inside one calendar day

MaxStrLen == 4     \* longest nutrient string drawn from the alphabet
MaxItems == 3      \* longest list handed to calculateTotals
MaxCurrent == 12   \* largest of the consecutive totals handed to calculatePercentage
MaxGoal == 8       \* largest of the consecutive goals handed to calculatePercentage
MaxPercent == 120  \* largest percentage handed to getProgressColor directly

----------------------------------------------------------------------------
(* Strings *)

Str(s) == <<s>>
EmptyStr == <<>>

LowerChar(c) ==
    CASE c = "L" -> "l"
      [] c = "D" -> "d"
      [] c = "B" -> "b"
      [] OTHER -> c

toLowerCase(s) == [i \in 1..Len(s) |-> LowerChar(s[i])]

RECURSIVE trimStart(_)
trimStart(s) ==
    IF s # <<>> /\ Head(s) = " " THEN trimStart(Tail(s)) ELSE s

RECURSIVE trimEnd(_)
trimEnd(s) ==
    IF s # <<>> /\ s[Len(s)] = " " THEN trimEnd(SubSeq(s, 1, Len(s) - 1)) ELSE s

trim(s) == trimEnd(trimStart(s))

Lunch == <<"L", "u", "n", "c", "h">>
Dinner == <<"D", "i", "n", "n", "e", "r">>
lunchSp == <<"l", "u", "n", "c", "h", " ">>
BreakfastSp == <<"B", "r", "e", "a", "k", "f", "a", "s", "t", " ">>
lunch == <<"l", "u", "n", "c", "h">>
Blank == <<" ">>

----------------------------------------------------------------------------
(* Optional values *)

NULL == [t |-> "none"]
Some(v) == [t |-> "some", val |-> v]

NoId == "<null>"
ItemIds == {"a", "b"}

\* Boolean(x) for x in undefined | false | true
Boolean(x) == x = "true"
BoolVal(b) == IF b THEN "true" ELSE "false"

----------------------------------------------------------------------------
(* Dates *)

format(d) == d \div TicksPerDay
addDays(d, n) == d + n * TicksPerDay

----------------------------------------------------------------------------
(* Menu snapshots *)

Item(id, f) == [id |-> id, isFlagged |-> f]

\* The menu the backend serves: Lunch has two stations that both carry item
\* "a" (ids are unique only inside a station), Dinner carries "a" again.
\* fa, fb, fd are the served isFlagged values ("undefined" = field absent).
Meals(fa, fb, fd) ==
    << [name |-> Lunch,
        stations |-> << [name |-> "Grill", items |-> <<Item("a", fa), Item("b", fb)>>],
                        [name |-> "Deli",  items |-> <<Item("a", fa)>>] >>],
       [name |-> Dinner,
        stations |-> << [name |-> "Grill", items |-> <<Item("a", fd)>>] >>] >>

MenuData(dateStr, am, meals) == [date |-> dateStr, meals |-> meals, activeMeal |-> am]

\* activeMeal values the backend may send: absent, or the lunch period
\* spelled in lower case with a trailing blank.
ServerActiveMeals == {NULL, Some(lunchSp)}

ServerMeals == {Meals("false", "false", "false"),
                Meals("true", "false", "false")}

ServerMenus(dateStr) ==
    {MenuData(dateStr, am, ms) : am \in ServerActiveMeals, ms \in ServerMeals}

\* Positions <<meal, station, item>> of the items of a snapshot
Positions(menu) ==
    {<<m, s, i>> \in (1..2) \X (1..2) \X (1..2) :
        /\ m <= Len(menu.meals)
        /\ s <= Len(menu.meals[m].stations)
        /\ i <= Len(menu.meals[m].stations[s].items)}

ItemAt(menu, p) == menu.meals[p[1]].stations[p[2]].items[p[3]]
MealNameAt(menu, p) == menu.meals[p[1]].name

----------------------------------------------------------------------------
(* src/frontend/src/utils/nutritionStorage.ts and JSON *)

ABSENT == [t |-> "absent"]          \* getItem returns null
EmptyText == [t |-> "empty"]        \* the key holds ''
InvalidText == [t |-> "invalid"]    \* text JSON.parse rejects
NullText == [t |-> "null"]          \* 'null'
NumberText == [t |-> "number"]      \* '5'
ObjectText == [t |-> "object"]      \* '{}'

\* JSON.stringify of one FoodItem: a property whose value is undefined is left out
stringifyItem(item) ==
    IF item.isFlagged = "undefined"
    THEN [id |-> item.id]
    ELSE [id |-> item.id, isFlagged |-> item.isFlagged]

parseItem(e) ==
    [id |-> e.id,
     isFlagged |-> IF "isFlagged" \in DOMAIN e THEN e.isFlagged ELSE "undefined"]

stringify(items) ==
    [t |-> "array", elems |-> [i \in 1..Len(items) |-> stringifyItem(items[i])]]

\* JavaScript values JSON.parse can return
JsArray(items) == [js |-> "array", items |-> items]
JsNull == [js |-> "null"]
JsNumber == [js |-> "number"]
JsObject == [js |-> "object"]

\* JSON.parse; the argument is never ABSENT, EmptyText or InvalidText here
parse(text) ==
    CASE text.t = "array"  -> JsArray([i \in 1..Len(text.elems) |-> parseItem(text.elems[i])])
      [] text.t = "null"   -> JsNull
      [] text.t = "number" -> JsNumber
      [] OTHER             -> JsObject

\* loadSelectedItems: stored ? JSON.parse(stored) : [], [] when getItem or
\* JSON.parse throws
loadSelectedItems(st) ==
    IF storageFails THEN JsArray(<<>>)
    ELSE IF st = ABSENT \/ st = EmptyText THEN JsArray(<<>>)
    ELSE IF st = InvalidText THEN JsArray(<<>>)
    ELSE parse(st)

\* saveSelectedItems: the storage after localStorage.setItem(KEY, JSON.stringify(items));
\* a setItem that throws stores nothing
saveSelectedItems(st, items) == IF storageFails THEN st ELSE stringify(items)

\* clearSelections: the storage after localStorage.removeItem(KEY);
\* a removeItem that throws removes nothing
clearSelections(st) == IF storageFails THEN st ELSE ABSENT

\* The helper without its catch clause: what the body throws reaches the caller
Rethrown(thrown) == thrown

\* try { body } catch (error) { console.error(...) }: whether an error
\* thrown by the body reaches the caller
Caught(thrown) == FALSE

\* Whether a call of the helper ends with an error in its caller
saveSelectedItemsRaises == Caught(storageFails)
clearSelectionsRaises == Caught(storageFails)

\* getDefaultGoals: a fresh object with the six literals
getDefaultGoals ==
    [calories |-> 2000, protein |-> 50, fat |-> 65,
     carbohydrates |-> 300, sugar |-> 50, sodium |-> 2300]

\* JSON.stringify(goals): the text stored under 'nutrition-goals'
stringifyGoals(goals) == [t |-> "goals", text |-> goals]

\* saveNutritionGoals: the storage after localStorage.setItem(GOALS_KEY,
\* JSON.stringify(goals)); a setItem that throws stores nothing and is caught
saveNutritionGoals(st, goals) == IF storageFails THEN st ELSE stringifyGoals(goals)

\* loadNutritionGoals: stored ? JSON.parse(stored) : null, null when getItem
\* or JSON.parse throws; 'null' parses to null
loadNutritionGoals(st) ==
    IF storageFails THEN NULL
    ELSE IF st = ABSENT \/ st = EmptyText THEN NULL
    ELSE IF st = InvalidText \/ st = NullText THEN NULL
    ELSE st.text

----------------------------------------------------------------------------
(* Effects that persist the selection list *)

\* NutritionCalculator: useEffect(() => { if (isOpen) saveSelectedItems(selectedItems) },
\*                                [selectedItems, isOpen])
CalculatorSaveEffect(st, items, isOpen, depsChanged) ==
    IF depsChanged /\ isOpen THEN saveSelectedItems(st, items) ELSE st

\* The save effect writing only when the key is absent
SaveSelectionsEffectIfAbsent(st, items, depsChanged) ==
    IF ~depsChanged THEN st
    ELSE IF Len(items) > 0 THEN (IF st = ABSENT THEN saveSelectedItems(st, items) ELSE st)
    ELSE clearSelections(st)

\* MenuPage: useEffect(() => { length > 0 ? save : clear }, [selectedItems])
SaveSelectionsEffect(st, items, depsChanged) ==
    IF ~depsChanged THEN st
    ELSE IF Len(items) > 0 THEN saveSelectedItems(st, items)
    ELSE clearSelections(st)

\* The storage after a commit: the child's effect runs before the parent's.
\* selChanged: selectedItems is a new array; openChanged: isOpen changed.
CommitEffects(st, items, isOpen, selChanged, openChanged) ==
    SaveSelectionsEffect(
        CalculatorSaveEffect(st, items, isOpen, selChanged \/ openChanged),
        items, selChanged)

\* Whether one of the effects of a commit ends with an error
CommitRaises(items, isOpen, selChanged, openChanged) ==
    \/ (selChanged \/ openChanged) /\ isOpen /\ saveSelectedItemsRaises
    \/ selChanged /\ (IF Len(items) > 0 THEN saveSelectedItemsRaises
                                         ELSE clearSelectionsRaises)

\* An error that escapes an effect or a handler takes the page down
PhaseAfter(raised) == IF raised THEN "crashed" ELSE "running"

\* A pending window.setTimeout of the banner effect. n tells successive
\* timers apart; stale: the banner it was started for has been replaced
Timer(n, stale) == [n |-> n, stale |-> stale]

\* The timer started by the effect when the banner is feedback
StartTimer(timers, feedback) ==
    IF feedback = NULL THEN {}
    ELSE {Timer(IF \E t \in timers : ~t.stale /\ t.n = 0 THEN 1 ELSE 0, FALSE)}

\* The banner effect without the cleanup it returns: timers started for
\* earlier banners stay pending
BannerEffectNoCleanup(timers, prev, feedback) ==
    IF prev = NULL /\ feedback = NULL THEN timers
    ELSE {Timer(t.n, TRUE) : t \in timers} \cup StartTimer(timers, feedback)

\* useEffect(() => { if (!actionFeedback) return; const timeout =
\* window.setTimeout(...); return () => window.clearTimeout(timeout) },
\* [actionFeedback]): the pending timers after a commit that took the banner
\* from prev to feedback. Every non-null banner is a new object, so only
\* null after null leaves the dependency unchanged
BannerEffect(timers, prev, feedback) ==
    IF prev = NULL /\ feedback = NULL THEN timers
    ELSE StartTimer(timers, feedback)

----------------------------------------------------------------------------
(* Flag eligibility gate *)

\* JavaScript truthiness of an optional string
Truthy(opt) == opt # NULL /\ opt.val # EmptyStr

\* const isViewingToday = format(selectedDate, 'yyyy-MM-dd') === format(new Date(), 'yyyy-MM-dd')
isViewingToday == format(selectedDate) = format(now)

\* canFlagMeal comparing the names as written, neither trimmed nor lower-cased
canFlagMealExact(mealName) ==
    IF menuData = NULL \/ ~Truthy(menuData.activeMeal) \/ ~isViewingToday
    THEN FALSE
    ELSE mealName = menuData.activeMeal.val

canFlagMeal(mealName) ==
    IF menuData = NULL \/ ~Truthy(menuData.activeMeal) \/ ~isViewingToday
    THEN FALSE
    ELSE toLowerCase(trim(mealName)) = toLowerCase(trim(menuData.activeMeal.val))

\* The menu list is rendered only under {!loading && menuData && (...)}
MenuRendered == ~loading /\ menuData # NULL

\* disabled={!canFlagMeal(meal.name) || flaggingItemId === item.id}
FlagButtonDisabled(mealName, item) ==
    ~canFlagMeal(mealName) \/ flaggingItemId = item.id

\* The add button left enabled for every item
AddButtonNeverDisabled(item) == FALSE

\* disabled={Boolean(item.isFlagged)}
AddButtonDisabled(item) == Boolean(item.isFlagged)

----------------------------------------------------------------------------
(* Feedback banner texts *)

MsgOnlyDuring(am) == <<"Flagging is only available during the ">> \o am \o <<" period.">>
MsgOnlyActive == Str("Flagging is only available during the active meal period for today.")
MsgFailed == Str("Failed to update flag for this item.")
MsgFlagged == Str("Item flagged for today.")
MsgUnflagged == Str("Item unflagged for today.")
MsgNetwork == Str("Network Error")
MsgServer == Str("server message")

Feedback(type, message) == [type |-> type, message |-> message]

\* a || b on strings: the empty string is falsy
OrElse(a, b) == IF a # EmptyStr THEN a ELSE b

ErrNoMenu == "No menu found for this date"
ErrFetch == "Failed to fetch menu. Please check if the backend is running."
NoError == "<null>"

----------------------------------------------------------------------------
(* Flag collaborator: requests and the responses it may give *)

FlagRequest(itemId, mealName, flag) ==
    [itemId |-> itemId, mealName |-> mealName, flag |-> flag]

\* message is '' when the body carries none
ServerMessages == {EmptyStr, MsgServer}

\* A failed call: the body says success: false ("rejected"), axios threw
\* ("axios": message is err.response?.data?.message, errMessage is
\* err.message), or something else was thrown ("other").
FlagFailures ==
    {[kind |-> "rejected", message |-> m, errMessage |-> EmptyStr] : m \in ServerMessages}
    \cup {[kind |-> "axios", message |-> m, errMessage |-> MsgNetwork] : m \in ServerMessages}
    \cup {[kind |-> "other", message |-> EmptyStr, errMessage |-> MsgNetwork]}

\* The failure banner with the generic text only
FailureMessageGeneric(f) == MsgFailed

\* The banner text of a failed toggle
FailureMessage(f) ==
    CASE f.kind = "rejected" -> OrElse(f.message, MsgFailed)
      [] f.kind = "axios"    -> OrElse(f.message, OrElse(f.errMessage, MsgFailed))
      [] OTHER               -> MsgFailed

\* A success body: isFlagged is "true" or "false", message may be ''
FlagSuccesses ==
    {[isFlagged |-> f, message |-> m] : f \in {"true", "false"}, m \in ServerMessages}

\* The flag the client asked for taken as the result
ResponseFlagDesired(req, resp) == req.flag

\* const isFlagged = Boolean(response.data.isFlagged)
ResponseFlag(req, resp) == Boolean(resp.isFlagged)

\* The setMenuData updater of handleToggleFlag
FlagItems(items, itemId, isFlagged) ==
    [i \in 1..Len(items) |->
        IF items[i].id = itemId
        THEN [items[i] EXCEPT !.isFlagged = BoolVal(isFlagged)]
        ELSE items[i]]

FlagStations(stations, itemId, isFlagged) ==
    [s \in 1..Len(stations) |->
        [stations[s] EXCEPT !.items = FlagItems(stations[s].items, itemId, isFlagged)]]

\* The rewrite applied to every meal, whatever its name
ApplyFlagAllMeals(prev, mealName, itemId, isFlagged) ==
    IF prev = NULL THEN prev
    ELSE [prev EXCEPT !.meals =
            [m \in 1..Len(prev.meals) |->
                [prev.meals[m] EXCEPT
                    !.stations = FlagStations(prev.meals[m].stations, itemId, isFlagged)]]]

\* The setMenuData updater of the success branch
ApplyFlag(prev, mealName, itemId, isFlagged) ==
    IF prev = NULL THEN prev
    ELSE [prev EXCEPT !.meals =
            [m \in 1..Len(prev.meals) |->
                IF prev.meals[m].name # mealName THEN prev.meals[m]
                ELSE [prev.meals[m] EXCEPT
                        !.stations = FlagStations(prev.meals[m].stations, itemId, isFlagged)]]]

\* The objects the updater allocates, as paths <<>> (the snapshot),
\* <<meal>>, <<meal, station>>, <<meal, station, item>>. Every other object
\* of the new snapshot is the one of the old snapshot: { ...prev, meals }
\* is new; a meal of another name is returned as it is, the named meal is
\* { ...meal, stations }; stations.map returns ({ ...station, items }) for
\* every station of that meal; an item is { ...menuItem, isFlagged } when
\* its id matches and itself otherwise
Reallocated(prev, mealName, itemId) ==
    IF prev = NULL THEN {}
    ELSE {<<>>}
         \cup {<<m>> : m \in {m \in 1..Len(prev.meals) : prev.meals[m].name = mealName}}
         \cup {<<p[1], p[2]>> : p \in {p \in Positions(prev) : prev.meals[p[1]].name = mealName}}
         \cup {p \in Positions(prev) :
                  prev.meals[p[1]].name = mealName /\ ItemAt(prev, p).id = itemId}

\* Removing only the first entry with the id
RECURSIVE CascadeRemoveFirst(_, _)
CascadeRemoveFirst(prev, itemId) ==
    IF prev = <<>> THEN <<>>
    ELSE IF Head(prev).id = itemId THEN Tail(prev)
    ELSE <<Head(prev)>> \o CascadeRemoveFirst(Tail(prev), itemId)

\* prev.filter(selected => selected.id !== item.id)
CascadeRemove(prev, itemId) == SelectSeq(prev, LAMBDA e : e.id # itemId)

\* A selection whose entries follow the snapshot: an entry with the id
\* takes the new flag value
SelectionAfterFlagLive(prev, itemId, isFlagged) ==
    IF isFlagged THEN CascadeRemove(prev, itemId)
    ELSE [i \in 1..Len(prev) |->
            IF prev[i].id = itemId THEN [prev[i] EXCEPT !.isFlagged = "false"]
            ELSE prev[i]]

\* if (isFlagged) setSelectedItems(prev => prev.filter(...)); the entries
\* are objects of an earlier snapshot, which the updater of menuData does
\* not write to
SelectionAfterFlag(prev, itemId, isFlagged) ==
    IF isFlagged THEN CascadeRemove(prev, itemId) ELSE prev

\* Removing every entry that has the id of the entry at the position
RemoveById(prev, index) ==
    IF index \notin 1..Len(prev) THEN prev
    ELSE SelectSeq(prev, LAMBDA e : e.id # prev[index].id)

\* prev.filter((_, i) => i !== index), index counted from 1 here
RemoveAt(prev, index) ==
    IF index \notin 1..Len(prev) THEN prev
    ELSE [i \in 1..(Len(prev) - 1) |-> IF i < index THEN prev[i] ELSE prev[i + 1]]

----------------------------------------------------------------------------
(* State after construction: the useState initial values, nothing mounted *)

Other == [op |-> "other"]

\* Selection lists a previous session may have left in storage; an entry
\* saved before FoodItem had the isFlagged field carries none
PersistedLists ==
    {<<>>,
     <<Item("a", "undefined")>>}

InitialStorage ==
    {ABSENT, EmptyText, InvalidText, NullText, NumberText, ObjectText}
    \cup {stringify(l) : l \in PersistedLists}

Init ==
    /\ phase = "unmounted"
    /\ now = 0
    /\ selectedDate = 0
    /\ menuData = NULL
    /\ loading = FALSE
    /\ error = NoError
    /\ selectedItems = <<>>
    /\ isCalculatorOpen = FALSE
    /\ flaggingItemId = NoId
    /\ actionFeedback = NULL
    /\ storage \in InitialStorage
    /\ flagRequests = EmptyBag
    /\ menuRequests = EmptyBag
    /\ storageFails = FALSE
    /\ dietaryFilters = {}
    /\ allergenFilters = {}
    /\ nutritionGoals = getDefaultGoals
    /\ draftGoals = NULL
    /\ showGoalsModal = FALSE
    /\ goalsStorage = ABSENT
    /\ bannerTimers = {}
    /\ lastOp = Other

Running == phase = "running"

----------------------------------------------------------------------------
(* Mount: the effects of the first commit *)

\* savedItems.length > 0 in the hydration effect; reading .length of null throws
HydrationThrows(saved) == saved = JsNull

HydratedItems(saved) ==
    IF saved.js = "array" /\ Len(saved.items) > 0 THEN saved.items ELSE <<>>

\* const savedGoals = loadNutritionGoals(); if (savedGoals) setNutritionGoals(savedGoals)
HydratedGoals(savedGoals, goals) == IF savedGoals # NULL THEN savedGoals ELSE goals

\* fetchMenu up to its await: the request is in flight
fetchMenu(date) ==
    /\ loading' = TRUE
    /\ error' = NoError
    /\ actionFeedback' = NULL
    /\ bannerTimers' = BannerEffect(bannerTimers, actionFeedback, actionFeedback')
    /\ menuRequests' = menuRequests (+) SetToBag({[date |-> format(date)]})

Mount ==
    /\ phase = "unmounted"
    /\ fetchMenu(selectedDate)
    /\ LET saved == loadSelectedItems(storage)
       IN IF HydrationThrows(saved)
          THEN /\ phase' = "crashed"
               /\ UNCHANGED <<selectedItems, storage>>
          ELSE /\ phase' = PhaseAfter(
                            \/ CommitRaises(<<>>, isCalculatorOpen, TRUE, FALSE)
                            \/ /\ HydratedItems(saved) # <<>>
                               /\ CommitRaises(HydratedItems(saved), isCalculatorOpen, TRUE, FALSE))
               /\ selectedItems' = HydratedItems(saved)
               \* the save effect runs with the initial [] in the same commit,
               \* then again after the hydrated list is rendered
               /\ storage' =
                    LET st1 == SaveSelectionsEffect(storage, <<>>, TRUE)
                    IN IF HydratedItems(saved) # <<>>
                       THEN CommitEffects(st1, HydratedItems(saved), isCalculatorOpen, TRUE, FALSE)
                       ELSE st1
    /\ nutritionGoals' = HydratedGoals(loadNutritionGoals(goalsStorage), nutritionGoals)
    /\ lastOp' = [op |-> "mount", stored |-> storage]
    /\ UNCHANGED <<draftGoals, showGoalsModal, goalsStorage, storageFails, dietaryFilters, allergenFilters,
                   now, selectedDate, menuData, isCalculatorOpen, flaggingItemId, flagRequests>>

----------------------------------------------------------------------------
(* Clock and date navigation *)

Tick ==
    /\ phase # "crashed"
    /\ now < MaxNow
    /\ now' = now + 1
    /\ lastOp' = Other
    /\ UNCHANGED <<goalsVars, bannerTimers, storageFails, dietaryFilters, allergenFilters,
                   phase, selectedDate, menuData, loading, error, selectedItems,
                   isCalculatorOpen, flaggingItemId, actionFeedback, storage,
                   flagRequests, menuRequests>>

\* setSelectedDate stores a new Date object, so the fetch effect always runs
SetSelectedDate(date, cap) ==
    /\ Running
    /\ BagCardinality(menuRequests) < cap
    /\ format(date) \in 0..format(MaxNow)
    /\ selectedDate' = date
    /\ fetchMenu(date)
    /\ lastOp' = Other
    /\ UNCHANGED <<goalsVars, storageFails, dietaryFilters, allergenFilters,
                   phase, now, menuData, selectedItems, isCalculatorOpen,
                   flaggingItemId, storage, flagRequests>>

\* Navigation while no other menu request is in flight
Navigate(date) == SetSelectedDate(date, MaxMenuReq)

handleDateChange(days) == Navigate(addDays(selectedDate, days))

handleTodayClick == Navigate(now)

----------------------------------------------------------------------------
(* Menu fetch completions *)

FetchDone(r) ==
    /\ Running
    /\ BagIn(r, menuRequests)
    /\ menuRequests' = menuRequests (-) SetToBag({r})
    /\ loading' = FALSE
    /\ UNCHANGED <<goalsVars, bannerTimers, storageFails, dietaryFilters, allergenFilters,
                   phase, now, selectedDate, selectedItems, isCalculatorOpen,
                   flaggingItemId, actionFeedback, storage, flagRequests>>

\* A fetch completion that drops the selection entries the fetched snapshot
\* shows flagged
FetchSuccessRevalidates(r, menu) ==
    /\ Running
    /\ BagIn(r, menuRequests)
    /\ menuRequests' = menuRequests (-) SetToBag({r})
    /\ loading' = FALSE
    /\ menuData' = menu
    /\ selectedItems' =
          SelectSeq(selectedItems,
                    LAMBDA e : ~\E p \in Positions(menu) :
                                   /\ ItemAt(menu, p).id = e.id
                                   /\ Boolean(ItemAt(menu, p).isFlagged))
    /\ storage' = CommitEffects(storage, selectedItems', isCalculatorOpen, TRUE, FALSE)
    /\ lastOp' = [op |-> "fetchSuccess", req |-> r, data |-> menu]
    /\ UNCHANGED <<goalsVars, bannerTimers, storageFails, dietaryFilters, allergenFilters,
                   phase, now, selectedDate, error, isCalculatorOpen,
                   flaggingItemId, actionFeedback, flagRequests>>

\* A completion that drops the response of a request that is not the one
\* for the selected date
FetchSuccessLatestOnly(r, menu) ==
    /\ FetchDone(r)
    /\ menuData' = IF r.date = format(selectedDate) THEN menu ELSE menuData
    /\ lastOp' = [op |-> "fetchSuccess", req |-> r, data |-> menu]
    /\ UNCHANGED error

\* setMenuData(response.data)
FetchSuccess(r, menu) ==
    /\ FetchDone(r)
    /\ menuData' = menu
    /\ lastOp' = [op |-> "fetchSuccess", req |-> r, data |-> menu]
    /\ UNCHANGED error

FetchNoMenu(r) ==
    /\ FetchDone(r)
    /\ error' = ErrNoMenu
    /\ lastOp' = [op |-> "fetchFailure", req |-> r]
    /\ UNCHANGED menuData

\* A failed fetch that also drops the snapshot
FetchErrorClearsMenu(r) ==
    /\ FetchDone(r)
    /\ error' = ErrFetch
    /\ lastOp' = [op |-> "fetchFailure", req |-> r]
    /\ menuData' = NULL

\* The catch block: setError('Failed to fetch menu. ...')
FetchError(r) ==
    /\ FetchDone(r)
    /\ error' = ErrFetch
    /\ lastOp' = [op |-> "fetchFailure", req |-> r]
    /\ UNCHANGED menuData

----------------------------------------------------------------------------
(* Selection list handlers and the calculator panel *)

\* An append that skips an item whose id is already in the list
AppendItemUnique(prev, item) ==
    IF \E i \in 1..Len(prev) : prev[i].id = item.id THEN prev ELSE Append(prev, item)

\* [...prev, item]
AppendItem(prev, item) == Append(prev, item)

\* setSelectedItems(prev => [...prev, item])
handleAddToCalculator(item) ==
    /\ Running
    /\ Len(selectedItems) < MaxSel
    /\ selectedItems' = AppendItem(selectedItems, item)
    /\ storage' = CommitEffects(storage, selectedItems', isCalculatorOpen, TRUE, FALSE)
    /\ phase' = PhaseAfter(CommitRaises(selectedItems', isCalculatorOpen, TRUE, FALSE))
    /\ lastOp' = [op |-> "add", item |-> item]
    /\ UNCHANGED <<goalsVars, bannerTimers, storageFails, dietaryFilters, allergenFilters,
                   now, selectedDate, menuData, loading, error, isCalculatorOpen,
                   flaggingItemId, actionFeedback, flagRequests, menuRequests>>

\* The "Add to calculator" button of a rendered item
ClickAdd(p) ==
    /\ MenuRendered
    /\ p \in Positions(menuData)
    /\ ~AddButtonDisabled(ItemAt(menuData, p))
    /\ handleAddToCalculator(ItemAt(menuData, p))

\* setSelectedItems(prev => prev.filter((_, i) => i !== index)); filter
\* returns a new array also when it drops nothing
handleRemoveFromCalculator(index) ==
    /\ Running
    /\ selectedItems' = RemoveAt(selectedItems, index)
    /\ storage' = CommitEffects(storage, selectedItems', isCalculatorOpen, TRUE, FALSE)
    /\ phase' = PhaseAfter(CommitRaises(selectedItems', isCalculatorOpen, TRUE, FALSE))
    /\ lastOp' = [op |-> "remove", index |-> index,
                   removed |-> IF index \in 1..Len(selectedItems)
                               THEN Some(selectedItems[index]) ELSE NULL]
    /\ UNCHANGED <<goalsVars, bannerTimers, storageFails, dietaryFilters, allergenFilters,
                   now, selectedDate, menuData, loading, error, isCalculatorOpen,
                   flaggingItemId, actionFeedback, flagRequests, menuRequests>>

\* The remove button of entry `index` in the open panel
ClickRemove(index) ==
    /\ isCalculatorOpen
    /\ index \in 1..Len(selectedItems)
    /\ handleRemoveFromCalculator(index)

\* setSelectedItems([]); clearSelections()
handleClearCalculator ==
    /\ Running
    /\ selectedItems' = <<>>
    /\ storage' = CommitEffects(clearSelections(storage), selectedItems',
                                isCalculatorOpen, TRUE, FALSE)
    /\ phase' = PhaseAfter(\/ clearSelectionsRaises
                           \/ CommitRaises(selectedItems', isCalculatorOpen, TRUE, FALSE))
    /\ lastOp' = [op |-> "clear"]
    /\ UNCHANGED <<goalsVars, bannerTimers, storageFails, dietaryFilters, allergenFilters,
                   now, selectedDate, menuData, loading, error, isCalculatorOpen,
                   flaggingItemId, actionFeedback, flagRequests, menuRequests>>

\* "Clear All" in the open panel
ClickClearAll ==
    /\ isCalculatorOpen
    /\ handleClearCalculator

\* The floating calculator button: setIsCalculatorOpen(true)
OpenCalculator ==
    /\ Running
    /\ ~isCalculatorOpen
    /\ isCalculatorOpen' = TRUE
    /\ storage' = CommitEffects(storage, selectedItems, isCalculatorOpen', FALSE, TRUE)
    /\ phase' = PhaseAfter(CommitRaises(selectedItems, isCalculatorOpen', FALSE, TRUE))
    \* NutritionGoalsModal mounts with the panel: useState(currentGoals)
    /\ draftGoals' = nutritionGoals
    /\ lastOp' = Other
    /\ UNCHANGED <<nutritionGoals, showGoalsModal, goalsStorage, bannerTimers,
                   storageFails, dietaryFilters, allergenFilters,
                   now, selectedDate, menuData, loading, error, selectedItems,
                   flaggingItemId, actionFeedback, flagRequests, menuRequests>>

\* The panel's close button: setIsCalculatorOpen(false)
CloseCalculator ==
    /\ Running
    /\ isCalculatorOpen
    /\ isCalculatorOpen' = FALSE
    /\ storage' = CommitEffects(storage, selectedItems, isCalculatorOpen', FALSE, TRUE)
    /\ phase' = PhaseAfter(CommitRaises(selectedItems, isCalculatorOpen', FALSE, TRUE))
    \* if (!isOpen) return null unmounts NutritionGoalsModal and its draft
    /\ draftGoals' = NULL
    /\ lastOp' = Other
    /\ UNCHANGED <<nutritionGoals, showGoalsModal, goalsStorage, bannerTimers,
                   storageFails, dietaryFilters, allergenFilters,
                   now, selectedDate, menuData, loading, error, selectedItems,
                   flaggingItemId, actionFeedback, flagRequests, menuRequests>>

\* window.setTimeout(() => setActionFeedback(null), 5000) of the banner effect
BannerTimeout(t) ==
    /\ Running
    /\ t \in bannerTimers
    /\ actionFeedback' = NULL
    /\ bannerTimers' = BannerEffect(bannerTimers \ {t}, actionFeedback, actionFeedback')
    /\ lastOp' = Other
    /\ UNCHANGED <<goalsVars, storageFails, dietaryFilters, allergenFilters,
                   phase, now, selectedDate, menuData, loading, error, selectedItems,
                   isCalculatorOpen, flaggingItemId, storage, flagRequests, menuRequests>>

----------------------------------------------------------------------------
(* handleToggleFlag *)

\* The denial branch with the updating marker set before the gate is consulted
ToggleFlagDeniedMarks(mealName, item) ==
    /\ Running
    /\ menuData # NULL
    /\ ~canFlagMeal(mealName)
    /\ flaggingItemId' = item.id
    /\ actionFeedback' =
         Feedback("error",
                  IF Truthy(menuData.activeMeal)
                  THEN MsgOnlyDuring(menuData.activeMeal.val)
                  ELSE MsgOnlyActive)
    /\ bannerTimers' = BannerEffect(bannerTimers, actionFeedback, actionFeedback')
    /\ lastOp' = [op |-> "toggleDenied"]
    /\ UNCHANGED <<goalsVars, storageFails, dietaryFilters, allergenFilters,
                   phase, now, selectedDate, menuData, loading, error, selectedItems,
                   isCalculatorOpen, storage, flagRequests, menuRequests>>

\* The branch taken when canFlagMeal(mealName) is false
ToggleFlagDenied(mealName, item) ==
    /\ Running
    /\ menuData # NULL
    /\ ~canFlagMeal(mealName)
    /\ actionFeedback' =
         Feedback("error",
                  IF Truthy(menuData.activeMeal)
                  THEN MsgOnlyDuring(menuData.activeMeal.val)
                  ELSE MsgOnlyActive)
    /\ bannerTimers' = BannerEffect(bannerTimers, actionFeedback, actionFeedback')
    /\ lastOp' = [op |-> "toggleDenied"]
    /\ UNCHANGED <<goalsVars, storageFails, dietaryFilters, allergenFilters,
                   phase, now, selectedDate, menuData, loading, error, selectedItems,
                   isCalculatorOpen, flaggingItemId, storage, flagRequests, menuRequests>>

\* The branch that posts the request, up to its await
ToggleFlagSend(mealName, item) ==
    /\ Running
    /\ menuData # NULL
    /\ canFlagMeal(mealName)
    /\ BagCardinality(flagRequests) < MaxFlagReq
    /\ flaggingItemId' = item.id
    /\ actionFeedback' = NULL
    /\ flagRequests' = flagRequests (+)
            SetToBag({FlagRequest(item.id, mealName, ~Boolean(item.isFlagged))})
    /\ bannerTimers' = BannerEffect(bannerTimers, actionFeedback, actionFeedback')
    /\ lastOp' = Other
    /\ UNCHANGED <<goalsVars, storageFails, dietaryFilters, allergenFilters,
                   phase, now, selectedDate, menuData, loading, error, selectedItems,
                   isCalculatorOpen, storage, menuRequests>>

\* The flag button of a rendered item; a disabled button delivers no click
ClickFlag(p) ==
    /\ MenuRendered
    /\ p \in Positions(menuData)
    /\ ~FlagButtonDisabled(MealNameAt(menuData, p), ItemAt(menuData, p))
    /\ ToggleFlagSend(MealNameAt(menuData, p), ItemAt(menuData, p))

\* The request completes with success: true
FlagSuccess(req, resp) ==
    /\ Running
    /\ BagIn(req, flagRequests)
    /\ flagRequests' = flagRequests (-) SetToBag({req})
    /\ LET isFlagged == ResponseFlag(req, resp)
       IN /\ menuData' = ApplyFlag(menuData, req.mealName, req.itemId, isFlagged)
          /\ selectedItems' = SelectionAfterFlag(selectedItems, req.itemId, isFlagged)
          /\ storage' = CommitEffects(storage, selectedItems', isCalculatorOpen,
                                      isFlagged, FALSE)
          /\ phase' = PhaseAfter(CommitRaises(selectedItems', isCalculatorOpen,
                                              isFlagged, FALSE))
          /\ actionFeedback' =
                Feedback("success",
                         OrElse(resp.message,
                                IF isFlagged THEN MsgFlagged ELSE MsgUnflagged))
    /\ flaggingItemId' = NoId
    /\ bannerTimers' = BannerEffect(bannerTimers, actionFeedback, actionFeedback')
    /\ lastOp' = [op |-> "flagSuccess", req |-> req, isFlagged |-> resp.isFlagged,
                   removed |-> Len(selectedItems) - Len(selectedItems'),
                   fresh |-> Reallocated(menuData, req.mealName, req.itemId)]
    /\ UNCHANGED <<goalsVars, storageFails, dietaryFilters, allergenFilters,
                   now, selectedDate, loading, error, isCalculatorOpen, menuRequests>>

\* The request fails: success: false in the body, or the call throws
FlagFailure(req, f) ==
    /\ Running
    /\ BagIn(req, flagRequests)
    /\ flagRequests' = flagRequests (-) SetToBag({req})
    /\ actionFeedback' = Feedback("error", FailureMessage(f))
    /\ flaggingItemId' = NoId
    /\ bannerTimers' = BannerEffect(bannerTimers, actionFeedback, actionFeedback')
    /\ lastOp' = [op |-> "flagFailure", req |-> req, failure |-> f]
    /\ UNCHANGED <<goalsVars, storageFails, dietaryFilters, allergenFilters,
                   phase, now, selectedDate, menuData, loading, error, selectedItems,
                   isCalculatorOpen, storage, menuRequests>>

----------------------------------------------------------------------------
(* The page driven through its rendered controls, on the day it was opened *)

AllPositions == (1..2) \X (1..2) \X (1..2)

Next ==
    \/ Mount
    \/ handleTodayClick
    \/ \E r \in BagToSet(menuRequests) : \E menu \in ServerMenus(r.date) : FetchSuccess(r, menu)
    \/ \E r \in BagToSet(menuRequests) : FetchNoMenu(r)
    \/ \E r \in BagToSet(menuRequests) : FetchError(r)
    \/ \E p \in AllPositions : ClickAdd(p)
    \/ \E index \in 1..MaxSel : ClickRemove(index)
    \/ ClickClearAll
    \/ OpenCalculator
    \/ CloseCalculator
    \/ \E t \in bannerTimers : BannerTimeout(t)
    \/ \E p \in AllPositions : ClickFlag(p)
    \/ \E req \in BagToSet(flagRequests) : \E resp \in FlagSuccesses : FlagSuccess(req, resp)
    \/ \E req \in BagToSet(flagRequests) : \E f \in FlagFailures : FlagFailure(req, f)

Spec == Init /\ [][Next]_vars

----------------------------------------------------------------------------
(* Date navigation, with handleToggleFlag called for any item of the         *)
(* rendered menu whatever the state of its button; the selection list is    *)
(* the hydrated one and changes by cascade only.                            *)

\* handleToggleFlag(mealName, item) for the item at position p
CallToggleFlag(p) ==
    /\ MenuRendered
    /\ p \in Positions(menuData)
    /\ \/ ToggleFlagDenied(MealNameAt(menuData, p), ItemAt(menuData, p))
       \/ ToggleFlagSend(MealNameAt(menuData, p), ItemAt(menuData, p))

NextNav ==
    \/ Mount
    \/ \E days \in {-7, -1, 1, 7} : handleDateChange(days)
    \/ handleTodayClick
    \/ \E r \in BagToSet(menuRequests) : \E menu \in ServerMenus(r.date) : FetchSuccess(r, menu)
    \/ \E r \in BagToSet(menuRequests) : FetchNoMenu(r)
    \/ \E r \in BagToSet(menuRequests) : FetchError(r)
    \/ \E t \in bannerTimers : BannerTimeout(t)
    \/ \E p \in AllPositions : CallToggleFlag(p)
    \/ \E req \in BagToSet(flagRequests) : \E resp \in FlagSuccesses : FlagSuccess(req, resp)
    \/ \E req \in BagToSet(flagRequests) : \E f \in FlagFailures : FlagFailure(req, f)

SpecNav == Init /\ [][NextNav]_vars

----------------------------------------------------------------------------
(* The page of SpecNav with every pending banner timer firing unless it is  *)
(* cleared first: window.setTimeout runs its callback after 5 seconds.      *)

Timers == {Timer(n, stale) : n \in 0..1, stale \in BOOLEAN}

SpecBanner ==
    Init /\ [][NextNav]_vars /\ \A t \in Timers : WF_vars(BannerTimeout(t))

----------------------------------------------------------------------------
(* The page with date navigation while menu requests are in flight: every   *)
(* setSelectedDate starts a fetch and nothing cancels the earlier ones.     *)

InitRace ==
    /\ Init
    /\ storage = ABSENT

NextRace ==
    \/ Mount
    \/ \E days \in {-1, 1} : SetSelectedDate(addDays(selectedDate, days), MaxOverlap)
    \/ SetSelectedDate(now, MaxOverlap)
    \/ Tick
    \/ \E r \in BagToSet(menuRequests) : \E menu \in ServerMenus(r.date) : FetchSuccess(r, menu)
    \/ \E r \in BagToSet(menuRequests) : FetchNoMenu(r)
    \/ \E r \in BagToSet(menuRequests) : FetchError(r)
    \/ \E p \in AllPositions : ClickFlag(p)
    \/ \E req \in BagToSet(flagRequests) : \E resp \in FlagSuccesses : FlagSuccess(req, resp)
    \/ \E req \in BagToSet(flagRequests) : \E f \in FlagFailures : FlagFailure(req, f)

SpecRace == InitRace /\ [][NextRace]_vars

----------------------------------------------------------------------------
(* The eligibility gate applied to drawn inputs *)

GateActiveMeals ==
    {NULL, Some(EmptyStr), Some(Blank), Some(lunch), Some(lunchSp), Some(Lunch), Some(Dinner)}

GateMealNames == {Lunch, Dinner, lunch, BreakfastSp, Blank, EmptyStr}

InitGate ==
    /\ phase = "running"
    /\ now \in 0..MaxNow
    /\ selectedDate \in 0..(MaxNow + 1)
    /\ menuData \in {NULL} \cup
          {MenuData(format(selectedDate), am, Meals("false", "false", "false")) :
              am \in GateActiveMeals}
    /\ loading = FALSE
    /\ error = NoError
    /\ selectedItems = <<>>
    /\ isCalculatorOpen = FALSE
    /\ flaggingItemId = NoId
    /\ actionFeedback = NULL
    /\ storage = ABSENT
    /\ flagRequests = EmptyBag
    /\ menuRequests = EmptyBag
    /\ storageFails = FALSE
    /\ dietaryFilters = {}
    /\ allergenFilters = {}
    /\ nutritionGoals = getDefaultGoals
    /\ draftGoals = NULL
    /\ showGoalsModal = FALSE
    /\ goalsStorage = ABSENT
    /\ bannerTimers = {}
    /\ lastOp = Other

EvalGate(mealName) ==
    /\ lastOp' = [op |-> "canFlagMeal", mealName |-> mealName, result |-> canFlagMeal(mealName)]
    /\ UNCHANGED <<goalsVars, bannerTimers, storageFails, dietaryFilters, allergenFilters,
                   phase, now, selectedDate, menuData, loading, error, selectedItems,
                   isCalculatorOpen, flaggingItemId, actionFeedback, storage,
                   flagRequests, menuRequests>>

NextGate ==
    \/ \E mealName \in GateMealNames : EvalGate(mealName)
    \/ Tick

SpecGate == InitGate /\ [][NextGate]_vars

----------------------------------------------------------------------------
(* The selection store over a localStorage that may refuse access at any    *)
(* time (storage disabled, quota exhausted); handleRemoveFromCalculator is  *)
(* called with any index.                                                   *)

InitStore ==
    /\ phase = "unmounted"
    /\ now = 0
    /\ selectedDate = 0
    /\ menuData = NULL
    /\ loading = FALSE
    /\ error = NoError
    /\ selectedItems = <<>>
    /\ isCalculatorOpen = FALSE
    /\ flaggingItemId = NoId
    /\ actionFeedback = NULL
    /\ storage \in InitialStorage
    /\ flagRequests = EmptyBag
    /\ menuRequests = EmptyBag
    /\ storageFails \in BOOLEAN
    /\ dietaryFilters = {}
    /\ allergenFilters = {}
    /\ nutritionGoals = getDefaultGoals
    /\ draftGoals = NULL
    /\ showGoalsModal = FALSE
    /\ goalsStorage = ABSENT
    /\ bannerTimers = {}
    /\ lastOp = Other

\* The browser starts or stops refusing access to localStorage
StorageAccess(refused) ==
    /\ phase # "crashed"
    /\ storageFails # refused
    /\ storageFails' = refused
    /\ lastOp' = Other
    /\ UNCHANGED <<goalsVars, bannerTimers, phase, now, selectedDate, menuData, loading, error, selectedItems,
                   isCalculatorOpen, flaggingItemId, actionFeedback, storage,
                   flagRequests, menuRequests, dietaryFilters, allergenFilters>>

NextStore ==
    \/ Mount
    \/ \E refused \in BOOLEAN : StorageAccess(refused)
    \/ \E r \in BagToSet(menuRequests) : \E menu \in ServerMenus(r.date) : FetchSuccess(r, menu)
    \/ \E p \in AllPositions : ClickAdd(p)
    \/ \E index \in 0..(MaxSel + 1) : handleRemoveFromCalculator(index)
    \/ ClickClearAll
    \/ OpenCalculator
    \/ CloseCalculator
    \/ \E p \in AllPositions : ClickFlag(p)
    \/ \E req \in BagToSet(flagRequests) : \E resp \in FlagSuccesses : FlagSuccess(req, resp)

SpecStore == InitStore /\ [][NextStore]_vars

----------------------------------------------------------------------------
(* The dietary and allergen filter of the menu list *)

Peanuts == Str("Peanuts")
PeanutsSp == <<" ", "Peanuts", " ">>
peanuts == Str("peanuts")
Milk == Str("Milk")

\* allergens arrays the backend may send; NULL is a missing field
AllergenLists ==
    {NULL} \cup {Some(al) : al \in {<<>>, <<Peanuts>>, <<PeanutsSp>>, <<peanuts>>,
                                   <<Milk, Peanuts>>, <<Blank>>}}

FilterItems ==
    {[allergens |-> al, isVegetarian |-> vg, isVegan |-> vn] :
        al \in AllergenLists, vg \in BOOLEAN, vn \in BOOLEAN}

\* item.allergens?.map(a => a.trim()) || [], as a set
TrimmedAllergens(item) ==
    IF item.allergens = NULL THEN {}
    ELSE {trim(item.allergens.val[i]) : i \in 1..Len(item.allergens.val)}

\* getAllAllergens: the trimmed, non-empty allergens of the menu's items, the
\* options of the allergen filter panel
getAllAllergens(items) ==
    {a \in UNION {TrimmedAllergens(item) : item \in items} : a # EmptyStr}

\* The filter with the dietary tags consulted before the allergens
matchesDietaryFilterTagsFirst(item) ==
    IF dietaryFilters # {} /\ (\/ "vegetarian" \in dietaryFilters /\ item.isVegetarian
                               \/ "vegan" \in dietaryFilters /\ item.isVegan)
    THEN TRUE
    ELSE IF allergenFilters # {} /\ (\E allergen \in allergenFilters :
                                        allergen \in TrimmedAllergens(item))
    THEN FALSE
    ELSE dietaryFilters = {}

\* The filter requiring every active dietary tag
matchesDietaryFilterAllTags(item) ==
    IF allergenFilters # {} /\ (\E allergen \in allergenFilters :
                                   allergen \in TrimmedAllergens(item))
    THEN FALSE
    ELSE IF dietaryFilters = {} THEN TRUE
    ELSE /\ "vegetarian" \in dietaryFilters => item.isVegetarian
         /\ "vegan" \in dietaryFilters => item.isVegan

matchesDietaryFilter(item) ==
    IF allergenFilters # {} /\ (\E allergen \in allergenFilters :
                                   allergen \in TrimmedAllergens(item))
    THEN FALSE
    ELSE IF dietaryFilters = {} THEN TRUE
    ELSE LET matchesVegetarian == "vegetarian" \in dietaryFilters /\ item.isVegetarian
             matchesVegan == "vegan" \in dietaryFilters /\ item.isVegan
         IN matchesVegetarian \/ matchesVegan

\* newSet.has(x) ? newSet.delete(x) : newSet.add(x)
ToggleMember(set, x) == IF x \in set THEN set \ {x} ELSE set \cup {x}

handleToggleDietaryFilter(filter) ==
    /\ Running
    /\ dietaryFilters' = ToggleMember(dietaryFilters, filter)
    /\ lastOp' = Other
    /\ UNCHANGED <<goalsVars, bannerTimers, phase, now, selectedDate, menuData, loading, error, selectedItems,
                   isCalculatorOpen, flaggingItemId, actionFeedback, storage,
                   flagRequests, menuRequests, storageFails, allergenFilters>>

handleToggleAllergenFilter(allergen) ==
    /\ Running
    /\ allergenFilters' = ToggleMember(allergenFilters, allergen)
    /\ lastOp' = Other
    /\ UNCHANGED <<goalsVars, bannerTimers, phase, now, selectedDate, menuData, loading, error, selectedItems,
                   isCalculatorOpen, flaggingItemId, actionFeedback, storage,
                   flagRequests, menuRequests, storageFails, dietaryFilters>>

\* The render applying the filter to one item of the menu
EvalFilter(item) ==
    /\ Running
    /\ lastOp' = [op |-> "matchesDietaryFilter", item |-> item,
                   result |-> matchesDietaryFilter(item)]
    /\ UNCHANGED <<goalsVars, bannerTimers, phase, now, selectedDate, menuData, loading, error, selectedItems,
                   isCalculatorOpen, flaggingItemId, actionFeedback, storage,
                   flagRequests, menuRequests, storageFails, dietaryFilters,
                   allergenFilters>>

\* The page with its state as constructed and the effects of the mount done
InitIdle ==
    /\ phase = "running"
    /\ now = 0
    /\ selectedDate = 0
    /\ menuData = NULL
    /\ loading = FALSE
    /\ error = NoError
    /\ selectedItems = <<>>
    /\ isCalculatorOpen = FALSE
    /\ flaggingItemId = NoId
    /\ actionFeedback = NULL
    /\ storage = ABSENT
    /\ flagRequests = EmptyBag
    /\ menuRequests = EmptyBag
    /\ storageFails = FALSE
    /\ dietaryFilters = {}
    /\ allergenFilters = {}
    /\ nutritionGoals = getDefaultGoals
    /\ draftGoals = NULL
    /\ showGoalsModal = FALSE
    /\ goalsStorage = ABSENT
    /\ bannerTimers = {}
    /\ lastOp = Other

NextFilter ==
    \/ \E filter \in {"vegetarian", "vegan"} : handleToggleDietaryFilter(filter)
    \/ \E allergen \in getAllAllergens(FilterItems) : handleToggleAllergenFilter(allergen)
    \/ \E item \in FilterItems : EvalFilter(item)

SpecFilter == InitIdle /\ [][NextFilter]_vars

----------------------------------------------------------------------------
(* src/frontend/src/utils/nutritionCalculator.ts *)

\* A JavaScript number with a finite decimal expansion: m / 10^e, e minimal
RECURSIVE Pow10(_)
Pow10(e) == IF e = 0 THEN 1 ELSE 10 * Pow10(e - 1)

RECURSIVE Normal(_, _)
Normal(m, e) == IF e > 0 /\ m % 10 = 0 THEN Normal(m \div 10, e - 1) ELSE [m |-> m, e |-> e]

Num(n) == [m |-> n, e |-> 0]
NaN == [nan |-> TRUE]

\* a + b on numbers; exact, as the double sum is on the values drawn here
Plus(a, b) ==
    LET e == IF a.e > b.e THEN a.e ELSE b.e
    IN Normal(a.m * Pow10(e - a.e) + b.m * Pow10(e - b.e), e)

Digits == {"0", "1", "2", "3", "4", "5", "6", "7", "8", "9"}

DigitVal(c) ==
    CASE c = "0" -> 0 [] c = "1" -> 1 [] c = "2" -> 2 [] c = "3" -> 3 [] c = "4" -> 4
      [] c = "5" -> 5 [] c = "6" -> 6 [] c = "7" -> 7 [] c = "8" -> 8 [] c = "9" -> 9

\* The value of a run of digits, most significant first
RECURSIVE IntOf(_)
IntOf(ds) == IF ds = <<>> THEN 0 ELSE 10 * IntOf(SubSeq(ds, 1, Len(ds) - 1)) + DigitVal(ds[Len(ds)])

\* The longest prefix made of digits
RECURSIVE DigitRun(_)
DigitRun(s) ==
    IF s # <<>> /\ Head(s) \in Digits THEN <<Head(s)>> \o DigitRun(Tail(s)) ELSE <<>>

\* parseFloat on a string without blanks, sign or exponent: the longest prefix
\* digits [. digits] or . digits is the number, NaN when there is none
parseFloat(s) ==
    LET ip == DigitRun(s)
        rest == SubSeq(s, Len(ip) + 1, Len(s))
        fp == IF rest # <<>> /\ Head(rest) = "." THEN DigitRun(Tail(rest)) ELSE <<>>
    IN IF ip = <<>> /\ fp = <<>> THEN NaN ELSE Normal(IntOf(ip \o fp), Len(fp))

\* x || 0 on a number: NaN and 0 are falsy
OrZero(x) == IF x = NaN THEN Num(0) ELSE x

\* A nutrient value as the backend sends it: string | number
NumberValue(n) == [k |-> "number", num |-> n]
StringValue(s) == [k |-> "string", str |-> s]

NA == <<"N", "/", "A">>

\* value.replace(/[^0-9.]/g, '')
Cleaned(s) == SelectSeq(s, LAMBDA c : c \in Digits \/ c = ".")

\* The parser without the replace: units are left in the string
parseNutritionValueNoStrip(value) ==
    IF value.k = "number" THEN value.num
    ELSE IF value.str = NA THEN Num(0)
    ELSE OrZero(parseFloat(value.str))

parseNutritionValue(value) ==
    IF value.k = "number" THEN value.num
    ELSE IF value.str = NA THEN Num(0)
    ELSE OrZero(parseFloat(Cleaned(value.str)))

NutrientFields == {"calories", "protein", "fat", "carbohydrates", "sugar", "sodium"}

\* The reduce with each field overwritten by the item's value
RECURSIVE calculateTotalsLastWins(_)
calculateTotalsLastWins(items) ==
    IF items = <<>> THEN [f \in NutrientFields |-> Num(0)]
    ELSE LET nutrition == items[Len(items)].nutrition
         IN [f \in NutrientFields |-> parseNutritionValue(nutrition[f])]

\* items.reduce((totals, item) => ({field: totals.field + parse(item.nutrition.field)}), zeros)
RECURSIVE calculateTotals(_)
calculateTotals(items) ==
    IF items = <<>> THEN [f \in NutrientFields |-> Num(0)]
    ELSE LET totals == calculateTotals(SubSeq(items, 1, Len(items) - 1))
             nutrition == items[Len(items)].nutrition
         IN [f \in NutrientFields |-> Plus(totals[f], parseNutritionValue(nutrition[f]))]

\* Math.round of the double nearest to num / den, for den > 0: floor(x + 0.5).
\* At an exact half the double can lie on either side of it ((29 / 200) * 100
\* is 14.499999999999998), so both neighbours are outcomes there.
MathRound(num, den) ==
    IF (2 * num) % den = 0 /\ ((2 * num) \div den) % 2 = 1
    THEN {num \div den, num \div den + 1}
    ELSE {(2 * num + den) \div (2 * den)}

\* The percentage without the cap
calculatePercentageUncapped(current, goal) ==
    IF goal.m = 0 THEN {0}
    ELSE MathRound(current.m * 100 * Pow10(goal.e), goal.m * Pow10(current.e))

\* goal === 0 ? 0 : Math.min(100, Math.round((current / goal) * 100));
\* the integers the call can return
calculatePercentage(current, goal) ==
    IF goal.m = 0 THEN {0}
    ELSE {IF rounded < 100 THEN rounded ELSE 100 :
             rounded \in MathRound(current.m * 100 * Pow10(goal.e),
                                   goal.m * Pow10(current.e))}

\* The tiering with 80 still counted as the lowest tier
getProgressColorInclusive(percentage) ==
    IF percentage <= 80 THEN "bg-green-500"
    ELSE IF percentage < 100 THEN "bg-yellow-500"
    ELSE "bg-red-500"

getProgressColor(percentage) ==
    IF percentage < 80 THEN "bg-green-500"
    ELSE IF percentage < 100 THEN "bg-yellow-500"
    ELSE "bg-red-500"

----------------------------------------------------------------------------
(* The nutrition functions applied to drawn inputs, as the open calculator  *)
(* panel applies them on every render                                       *)

ParseAlphabet == {"1", "0", "5", ".", "g", "-"}

Mg140 == <<"1", "4", "0", "m", "g">>
LessThan1g == <<"<", "1", "g">>
Thousands == <<"1", ",", "2", "0", "0", "m", "g">>
na == <<"n", "/", "a">>

ParseStrings ==
    UNION {[1..k -> ParseAlphabet] : k \in 0..MaxStrLen}
    \cup {NA, na, Mg140, LessThan1g, Thousands}

ParseNumbers == {Num(0), Num(250), Num(-3), Normal(15, 1)}

ParseValues ==
    {StringValue(str) : str \in ParseStrings} \cup {NumberValue(n) : n \in ParseNumbers}

G12 == <<"1", "2", "g">>
Cal250 == <<"2", "5", "0">>

Nutrition(cal, pro, fat, carb, sug, sod) ==
    [calories |-> cal, protein |-> pro, fat |-> fat,
     carbohydrates |-> carb, sugar |-> sug, sodium |-> sod]

\* Items whose nutrient fields are integer-valued: numbers, strings with a
\* unit, 'N/A' and ''
CalcItems ==
    {[id |-> "a", nutrition |->
         Nutrition(NumberValue(Num(250)), StringValue(G12), StringValue(NA),
                   StringValue(Mg140), NumberValue(Num(7)), StringValue(Mg140))],
     [id |-> "b", nutrition |->
         Nutrition(StringValue(Cal250), NumberValue(Num(5)), StringValue(G12),
                   StringValue(NA), StringValue(EmptyStr), NumberValue(Num(0)))],
     [id |-> "c", nutrition |->
         Nutrition(StringValue(NA), StringValue(NA), StringValue(NA),
                   StringValue(NA), StringValue(NA), StringValue(NA))],
     [id |-> "d", nutrition |->
         Nutrition(StringValue(LessThan1g), StringValue(Thousands), NumberValue(Num(1)),
                   NumberValue(Num(30)), StringValue(G12), StringValue(Cal250))]}

CalcLists == UNION {[1..k -> CalcItems] : k \in 0..MaxItems}

Currents ==
    {Num(n) : n \in (0..MaxCurrent) \cup {29, 79, 80, 99, 100, 158, 159, 199, 1600, 2400}}
    \cup {Normal(105, 1)}

Goals == {Num(n) : n \in (0..MaxGoal) \cup {50, 100, 200, 2000}}

\* The functions read no state: one application per behaviour explores them all
Idle == Running /\ lastOp = Other

EvalParse(value) ==
    /\ Idle
    /\ lastOp' = [op |-> "parseNutritionValue", value |-> value,
                   result |-> parseNutritionValue(value)]
    /\ UNCHANGED <<goalsVars, bannerTimers, phase, now, selectedDate, menuData, loading, error, selectedItems,
                   isCalculatorOpen, flaggingItemId, actionFeedback, storage,
                   flagRequests, menuRequests, storageFails, dietaryFilters,
                   allergenFilters>>

\* const totals = calculateTotals(selectedItems)
EvalTotals(items) ==
    /\ Idle
    /\ lastOp' = [op |-> "calculateTotals", items |-> items,
                   result |-> calculateTotals(items)]
    /\ UNCHANGED <<goalsVars, bannerTimers, phase, now, selectedDate, menuData, loading, error, selectedItems,
                   isCalculatorOpen, flaggingItemId, actionFeedback, storage,
                   flagRequests, menuRequests, storageFails, dietaryFilters,
                   allergenFilters>>

\* renderProgressBar: percentage = calculatePercentage(current, goal),
\* color = getProgressColor(percentage)
EvalProgressBar(current, goal) ==
    /\ Idle
    /\ \E percentage \in calculatePercentage(current, goal) :
          lastOp' = [op |-> "renderProgressBar", current |-> current, goal |-> goal,
                     percentage |-> percentage,
                     color |-> getProgressColor(percentage)]
    /\ UNCHANGED <<goalsVars, bannerTimers, phase, now, selectedDate, menuData, loading, error, selectedItems,
                   isCalculatorOpen, flaggingItemId, actionFeedback, storage,
                   flagRequests, menuRequests, storageFails, dietaryFilters,
                   allergenFilters>>

EvalProgressColor(percentage) ==
    /\ Idle
    /\ lastOp' = [op |-> "getProgressColor", percentage |-> percentage,
                   color |-> getProgressColor(percentage)]
    /\ UNCHANGED <<goalsVars, bannerTimers, phase, now, selectedDate, menuData, loading, error, selectedItems,
                   isCalculatorOpen, flaggingItemId, actionFeedback, storage,
                   flagRequests, menuRequests, storageFails, dietaryFilters,
                   allergenFilters>>

NextCalc ==
    \/ \E value \in ParseValues : EvalParse(value)
    \/ \E items \in CalcLists : EvalTotals(items)
    \/ \E current \in Currents : \E goal \in Goals : EvalProgressBar(current, goal)
    \/ \E percentage \in (-1)..MaxPercent : EvalProgressColor(percentage)

SpecCalc == InitIdle /\ [][NextCalc]_vars

----------------------------------------------------------------------------
(* NutritionGoalsModal inside the calculator panel *)

\* parseInt(e.target.value) || 0 for a value made of digits and '.': the
\* leading digits, 0 when there is none
parseIntOrZero(text) == IntOf(DigitRun(text))

\* "Set Daily Goals" in the panel's footer: setShowGoalsModal(true)
OpenGoalsModal ==
    /\ Running
    /\ isCalculatorOpen
    /\ ~showGoalsModal
    /\ showGoalsModal' = TRUE
    /\ lastOp' = Other
    /\ UNCHANGED <<nutritionGoals, draftGoals, goalsStorage, bannerTimers,
                   storageFails, dietaryFilters, allergenFilters,
                   phase, now, selectedDate, menuData, loading, error, selectedItems,
                   isCalculatorOpen, flaggingItemId, actionFeedback, storage,
                   flagRequests, menuRequests>>

\* Whether the modal is on screen
GoalsModalShown == Running /\ isCalculatorOpen /\ showGoalsModal

\* Cancel, the close button or a click on the overlay: onClose. The modal
\* stays mounted and keeps its draft
CloseGoalsModal ==
    /\ GoalsModalShown
    /\ showGoalsModal' = FALSE
    /\ lastOp' = Other
    /\ UNCHANGED <<nutritionGoals, draftGoals, goalsStorage, bannerTimers,
                   storageFails, dietaryFilters, allergenFilters,
                   phase, now, selectedDate, menuData, loading, error, selectedItems,
                   isCalculatorOpen, flaggingItemId, actionFeedback, storage,
                   flagRequests, menuRequests>>

\* onChange of one input: setGoals({ ...goals, [field]: parseInt(value) || 0 })
EditGoal(field, text) ==
    /\ GoalsModalShown
    /\ draftGoals' = [draftGoals EXCEPT ![field] = parseIntOrZero(text)]
    /\ lastOp' = Other
    /\ UNCHANGED <<nutritionGoals, showGoalsModal, goalsStorage, bannerTimers,
                   storageFails, dietaryFilters, allergenFilters,
                   phase, now, selectedDate, menuData, loading, error, selectedItems,
                   isCalculatorOpen, flaggingItemId, actionFeedback, storage,
                   flagRequests, menuRequests>>

\* A reset that also stores and commits the baseline
handleResetPersists ==
    /\ GoalsModalShown
    /\ draftGoals' = getDefaultGoals
    /\ goalsStorage' = saveNutritionGoals(goalsStorage, getDefaultGoals)
    /\ nutritionGoals' = getDefaultGoals
    /\ lastOp' = [op |-> "goalsReset"]
    /\ UNCHANGED <<showGoalsModal, bannerTimers,
                   storageFails, dietaryFilters, allergenFilters,
                   phase, now, selectedDate, menuData, loading, error, selectedItems,
                   isCalculatorOpen, flaggingItemId, actionFeedback, storage,
                   flagRequests, menuRequests>>

\* "Reset to Defaults": setGoals(getDefaultGoals())
handleReset ==
    /\ GoalsModalShown
    /\ draftGoals' = getDefaultGoals
    /\ lastOp' = [op |-> "goalsReset"]
    /\ UNCHANGED <<nutritionGoals, showGoalsModal, goalsStorage, bannerTimers,
                   storageFails, dietaryFilters, allergenFilters,
                   phase, now, selectedDate, menuData, loading, error, selectedItems,
                   isCalculatorOpen, flaggingItemId, actionFeedback, storage,
                   flagRequests, menuRequests>>

\* "Save Goals": saveNutritionGoals(goals); onSave(goals); onClose()
handleSave ==
    /\ GoalsModalShown
    /\ goalsStorage' = saveNutritionGoals(goalsStorage, draftGoals)
    /\ nutritionGoals' = draftGoals
    /\ showGoalsModal' = FALSE
    /\ lastOp' = [op |-> "goalsSave"]
    /\ UNCHANGED <<draftGoals, bannerTimers,
                   storageFails, dietaryFilters, allergenFilters,
                   phase, now, selectedDate, menuData, loading, error, selectedItems,
                   isCalculatorOpen, flaggingItemId, actionFeedback, storage,
                   flagRequests, menuRequests>>

\* Goals a previous session may have saved
SavedGoals == [getDefaultGoals EXCEPT !.calories = 1800, !.sodium = 1500]

\* What the two storage keys hold when the page is opened
InitGoals ==
    /\ phase = "unmounted"
    /\ now = 0
    /\ selectedDate = 0
    /\ menuData = NULL
    /\ loading = FALSE
    /\ error = NoError
    /\ selectedItems = <<>>
    /\ isCalculatorOpen = FALSE
    /\ flaggingItemId = NoId
    /\ actionFeedback = NULL
    /\ storage \in {ABSENT, stringify(<<Item("a", "false")>>)}
    /\ flagRequests = EmptyBag
    /\ menuRequests = EmptyBag
    /\ storageFails = FALSE
    /\ dietaryFilters = {}
    /\ allergenFilters = {}
    /\ nutritionGoals = getDefaultGoals
    /\ draftGoals = NULL
    /\ showGoalsModal = FALSE
    /\ goalsStorage \in {ABSENT, InvalidText, NullText, stringifyGoals(SavedGoals)}
    /\ bannerTimers = {}
    /\ lastOp = Other

\* Typed into an input of type number
GoalTexts == {EmptyStr, <<"1", "8", "0", "0">>, <<"7", ".", "5">>}

NextGoals ==
    \/ Mount
    \/ handleTodayClick
    \/ \E r \in BagToSet(menuRequests) : \E menu \in ServerMenus(r.date) : FetchSuccess(r, menu)
    \/ \E r \in BagToSet(menuRequests) : FetchNoMenu(r)
    \/ \E r \in BagToSet(menuRequests) : FetchError(r)
    \/ OpenCalculator
    \/ CloseCalculator
    \/ OpenGoalsModal
    \/ CloseGoalsModal
    \/ \E field \in {"calories", "protein"} : \E text \in GoalTexts : EditGoal(field, text)
    \/ handleReset
    \/ handleSave

SpecGoals == InitGoals /\ [][NextGoals]_vars

----------------------------------------------------------------------------
(* The page across a restart of the process: the React state is built anew, *)
(* localStorage stays.                                                     *)

\* The tab is closed and opened again while the page is at rest: every
\* useState starts from its initial value, pending requests and timers are
\* gone, both storage keys keep their values
Restart ==
    /\ Running
    /\ flagRequests = EmptyBag
    /\ menuRequests = EmptyBag
    /\ phase' = "unmounted"
    /\ selectedDate' = now
    /\ menuData' = NULL
    /\ loading' = FALSE
    /\ error' = NoError
    /\ selectedItems' = <<>>
    /\ isCalculatorOpen' = FALSE
    /\ flaggingItemId' = NoId
    /\ actionFeedback' = NULL
    /\ dietaryFilters' = {}
    /\ allergenFilters' = {}
    /\ nutritionGoals' = getDefaultGoals
    /\ draftGoals' = NULL
    /\ showGoalsModal' = FALSE
    /\ bannerTimers' = {}
    /\ lastOp' = [op |-> "restart", list |-> selectedItems, stored |-> storage]
    /\ UNCHANGED <<now, storage, goalsStorage, storageFails, flagRequests, menuRequests>>

NextRestart ==
    \/ Mount
    \/ Restart
    \/ \E r \in BagToSet(menuRequests) : \E menu \in ServerMenus(r.date) : FetchSuccess(r, menu)
    \/ \E r \in BagToSet(menuRequests) : FetchNoMenu(r)
    \/ \E r \in BagToSet(menuRequests) : FetchError(r)
    \/ \E p \in AllPositions : ClickAdd(p)
    \/ \E index \in 1..MaxSel : ClickRemove(index)
    \/ ClickClearAll
    \/ OpenCalculator
    \/ CloseCalculator
    \/ \E p \in AllPositions : ClickFlag(p)
    \/ \E req \in BagToSet(flagRequests) : \E resp \in FlagSuccesses : FlagSuccess(req, resp)
    \/ \E req \in BagToSet(flagRequests) : \E f \in FlagFailures : FlagFailure(req, f)

SpecRestart == InitRace /\ [][NextRestart]_vars

----------------------------------------------------------------------------
(* Properties *)

\* C1: at most one flag-toggle request is in flight for a given item (an id
\* inside a meal) at any time, whatever happens to other items meanwhile.
OneToggleInFlightPerItem ==
    \A r1 \in BagToSet(flagRequests) :
        /\ CopiesIn(r1, flagRequests) = 1
        /\ \A r2 \in BagToSet(flagRequests) :
              (r2.itemId = r1.itemId /\ r2.mealName = r1.mealName) => r2 = r1

\* The rule of the gate as the specification words it: trim(lower(x))
Normalized(s) == trim(toLowerCase(s))

Eligible(mealName) ==
    /\ format(selectedDate) = format(now)
    /\ menuData # NULL
    /\ menuData.activeMeal # NULL
    /\ menuData.activeMeal.val # EmptyStr
    /\ Normalized(mealName) = Normalized(menuData.activeMeal.val)

\* C2: canFlagMeal(name) is true iff the navigated date is today, activeMeal is
\* non-empty and the two names agree after trimming and lower-casing; it is
\* false without an activeMeal, off today, and for 'Breakfast ' against 'lunch'.
GateRule ==
    lastOp.op = "canFlagMeal" =>
        /\ lastOp.result <=> Eligible(lastOp.mealName)
        /\ (menuData = NULL \/ menuData.activeMeal \in {NULL, Some(EmptyStr)}) => ~lastOp.result
        /\ format(selectedDate) # format(now) => ~lastOp.result
        /\ (menuData # NULL /\ menuData.activeMeal = Some(lunch) /\ lastOp.mealName = BreakfastSp)
              => ~lastOp.result

\* C2 witness: 'Lunch' is eligible against an activeMeal of 'lunch ' today
GateRuleWitness ==
    /\ lastOp.op = "canFlagMeal"
    /\ lastOp.mealName = Lunch
    /\ menuData # NULL
    /\ menuData.activeMeal = Some(lunchSp)
    /\ lastOp.result

\* C3: a toggle the gate denies sends no request, leaves the snapshot, the
\* selection list and the updating marker alone, and sets an error banner that
\* names the active meal when one is known and is the generic text otherwise.
DeniedToggleIsLocal ==
    [][lastOp'.op = "toggleDenied" =>
          /\ flagRequests' = flagRequests
          /\ menuData' = menuData
          /\ selectedItems' = selectedItems
          /\ flaggingItemId' = flaggingItemId
          /\ actionFeedback' # NULL
          /\ actionFeedback'.type = "error"
          /\ actionFeedback'.message =
                IF menuData.activeMeal # NULL /\ menuData.activeMeal.val # EmptyStr
                THEN MsgOnlyDuring(menuData.activeMeal.val)
                ELSE MsgOnlyActive]_vars

\* C3 witness: a denial while another item's request is in flight and the
\* selection list is not empty, reported with the active meal's name
DeniedToggleWitness ==
    /\ lastOp.op = "toggleDenied"
    /\ flagRequests # EmptyBag
    /\ flaggingItemId # NoId
    /\ selectedItems # <<>>
    /\ actionFeedback = Feedback("error", MsgOnlyDuring(lunchSp))

\* The items of a snapshot a flag request is about
Targets(menu, req) ==
    {p \in Positions(menu) :
        MealNameAt(menu, p) = req.mealName /\ ItemAt(menu, p).id = req.itemId}

\* C4: after a successful response the toggled item's flag in the snapshot is
\* the response's isFlagged, whatever the client asked for, and the selection
\* list loses entries exactly when that value is 'flagged'.
ResponseIsAuthoritative ==
    [][lastOp'.op = "flagSuccess" =>
          /\ menuData' # NULL
          /\ \A p \in Targets(menuData', lastOp'.req) :
                ItemAt(menuData', p).isFlagged = lastOp'.isFlagged
          /\ lastOp'.isFlagged = "false" => selectedItems' = selectedItems
          /\ lastOp'.isFlagged = "true" =>
                \A i \in 1..Len(selectedItems') : selectedItems'[i].id # lastOp'.req.itemId
          /\ Len(selectedItems') < Len(selectedItems) => lastOp'.isFlagged = "true"]_vars

\* C4 witness: the response contradicts the desired state and the snapshot
\* shows the response's value
ResponseIsAuthoritativeWitness ==
    /\ lastOp.op = "flagSuccess"
    /\ lastOp.isFlagged # BoolVal(lastOp.req.flag)
    /\ \E p \in Targets(menuData, lastOp.req) :
          ItemAt(menuData, p).isFlagged = lastOp.isFlagged

\* The list without the entries of an id, first to last
RECURSIVE WithoutId(_, _)
WithoutId(list, id) ==
    IF list = <<>> THEN <<>>
    ELSE IF Head(list).id = id THEN WithoutId(Tail(list), id)
    ELSE <<Head(list)>> \o WithoutId(Tail(list), id)

\* C5: after a successful toggle that results in 'flagged' the selection list
\* holds no entry with the toggled id, and the entries with other ids remain in
\* their order.
CascadeRemovesEveryEntry ==
    [][(lastOp'.op = "flagSuccess" /\ lastOp'.isFlagged = "true") =>
          /\ \A i \in 1..Len(selectedItems') : selectedItems'[i].id # lastOp'.req.itemId
          /\ selectedItems' = WithoutId(selectedItems, lastOp'.req.itemId)]_vars

\* C5 witness: the cascade removed two entries of the same id
CascadeRemovesEveryEntryWitness ==
    /\ lastOp.op = "flagSuccess"
    /\ lastOp.isFlagged = "true"
    /\ lastOp.removed >= 2

\* The error text a failed call carries: the body's message, else the message
\* of the error axios threw; an error thrown by anything else carries none
CollaboratorText(f) ==
    CASE f.kind = "rejected" -> f.message
      [] f.kind = "axios"    -> IF f.message # EmptyStr THEN f.message ELSE f.errMessage
      [] OTHER               -> EmptyStr

\* C6: a failed toggle leaves the snapshot and the selection list as they
\* were, clears the updating marker and shows an error banner with the
\* collaborator's error text when there is one, else the generic text.
FailureLeavesStateAndReports ==
    [][lastOp'.op = "flagFailure" =>
          /\ menuData' = menuData
          /\ selectedItems' = selectedItems
          /\ flaggingItemId' = NoId
          /\ actionFeedback' =
                Feedback("error",
                         IF CollaboratorText(lastOp'.failure) # EmptyStr
                         THEN CollaboratorText(lastOp'.failure)
                         ELSE MsgFailed)]_vars

\* C6 witness: a failure without any text, reported with the generic message
\* while the selection list is not empty
FailureWitness ==
    /\ lastOp.op = "flagFailure"
    /\ lastOp.failure.kind = "rejected"
    /\ lastOp.failure.message = EmptyStr
    /\ actionFeedback = Feedback("error", MsgFailed)
    /\ flaggingItemId = NoId
    /\ selectedItems # <<>>

\* C7: no add appends an entry for an item that is flagged in the snapshot at
\* the moment of the add: the appended entry is a copy of an unflagged item.
FlaggedItemNeverAdded ==
    [][lastOp'.op = "add" =>
          /\ menuData # NULL
          /\ Len(selectedItems') = Len(selectedItems) + 1
          /\ \E p \in Positions(menuData) :
                /\ ItemAt(menuData, p) = selectedItems'[Len(selectedItems')]
                /\ ~Boolean(ItemAt(menuData, p).isFlagged)
          /\ \A p \in Positions(menuData) :
                Boolean(ItemAt(menuData, p).isFlagged) =>
                    selectedItems'[Len(selectedItems')] # ItemAt(menuData, p)]_vars

\* C7 witness: an add of Dinner's unflagged "a" while Lunch's "a" is flagged
FlaggedItemNeverAddedWitness ==
    /\ lastOp.op = "add"
    /\ menuData # NULL
    /\ \E p \in Positions(menuData) :
          /\ Boolean(ItemAt(menuData, p).isFlagged)
          /\ ItemAt(menuData, p).id = selectedItems[Len(selectedItems)].id

\* C8: whenever the selection list is empty and the effects have run, the
\* selection key is absent from storage.
EmptyListMeansNoKey ==
    (phase = "running" /\ selectedItems = <<>>) => storage = ABSENT

\* C9: whenever the selection list is not empty and the effects have run, the
\* stored value is the serialization of the whole list, order and duplicates kept.
StorageMirrorsList ==
    (phase = "running" /\ Len(selectedItems) > 0) =>
        /\ storage.t = "array"
        /\ Len(storage.elems) = Len(selectedItems)
        /\ \A i \in 1..Len(selectedItems) : parseItem(storage.elems[i]) = selectedItems[i]

\* C9 witness: a list with the same item twice, mirrored in storage
StorageMirrorsListWitness ==
    /\ phase = "running"
    /\ Len(selectedItems) = 2
    /\ selectedItems[1] = selectedItems[2]
    /\ storage = stringify(selectedItems)

\* C10: hydration raises no error whatever the key holds; the list is the
\* stored list when the key holds one and empty otherwise.
HydrationNeverRaises ==
    /\ phase # "crashed"
    /\ lastOp.op = "mount" =>
          selectedItems =
             IF lastOp.stored.t = "array"
             THEN [i \in 1..Len(lastOp.stored.elems) |-> parseItem(lastOp.stored.elems[i])]
             ELSE <<>>

\* The list without the entry at a position; the list itself when the
\* position is outside it
WithoutPosition(list, index) ==
    IF index \in 1..Len(list)
    THEN SubSeq(list, 1, index - 1) \o SubSeq(list, index + 1, Len(list))
    ELSE list

\* C11: while localStorage refuses access, add, remove, clear and the cascade
\* still give the selection list its new value and no error escapes; the
\* operations that follow work on that list.
FailingStorageNeverBlocks ==
    [][storageFails =>
          /\ lastOp'.op = "add" =>
                /\ selectedItems' = Append(selectedItems, lastOp'.item)
                /\ phase' = "running"
          /\ lastOp'.op = "remove" =>
                /\ selectedItems' = WithoutPosition(selectedItems, lastOp'.index)
                /\ phase' = "running"
          /\ lastOp'.op = "clear" =>
                /\ selectedItems' = <<>>
                /\ phase' = "running"
          /\ lastOp'.op = "flagSuccess" =>
                /\ lastOp'.isFlagged = "true" =>
                      selectedItems' = WithoutId(selectedItems, lastOp'.req.itemId)
                /\ phase' = "running"
          /\ storage' = storage]_vars

\* C11 witness: a second add went through after the write of the first had
\* failed: two entries in memory, nothing in storage
FailingStorageWitness ==
    /\ storageFails
    /\ lastOp.op = "add"
    /\ Len(selectedItems) = 2
    /\ storage = ABSENT
    /\ phase = "running"

\* C12: remove(index) yields the list without the entry at that position, the
\* other entries (same id or not) in their order; an index outside the list
\* leaves the list as it is.
RemoveIsByPosition ==
    [][lastOp'.op = "remove" =>
          /\ selectedItems' = WithoutPosition(selectedItems, lastOp'.index)
          /\ lastOp'.index \in 1..Len(selectedItems) =>
                Len(selectedItems') = Len(selectedItems) - 1
          /\ lastOp'.index \notin 1..Len(selectedItems) => selectedItems' = selectedItems]_vars

\* C12 witness: one of two entries with the same id was removed, the other stays
RemoveIsByPositionWitness ==
    /\ lastOp.op = "remove"
    /\ lastOp.removed # NULL
    /\ Len(selectedItems) = 1
    /\ selectedItems[1].id = lastOp.removed.val.id

\* C13: add appends exactly one entry, the added item, at the end and leaves
\* the entries before it as they were, also when the id is already in the list.
AddAppendsOne ==
    [][lastOp'.op = "add" =>
          /\ Len(selectedItems') = Len(selectedItems) + 1
          /\ SubSeq(selectedItems', 1, Len(selectedItems)) = selectedItems
          /\ selectedItems'[Len(selectedItems')] = lastOp'.item
          /\ ~Boolean(lastOp'.item.isFlagged)]_vars

\* C13 witness: the same unflagged item added twice gives two entries
AddAppendsOneWitness ==
    /\ lastOp.op = "add"
    /\ Len(selectedItems) = 2
    /\ selectedItems[1] = lastOp.item
    /\ selectedItems[2] = lastOp.item

\* C14: the hydrated list is the persisted list, and the arrival of a menu
\* fetch response leaves the selection list and its stored copy as they were,
\* whatever the fetched snapshot marks as flagged.
SelectionsNotRevalidated ==
    [][/\ (lastOp'.op = "mount" /\ phase' = "running" /\ lastOp'.stored.t = "array") =>
             /\ Len(selectedItems') = Len(lastOp'.stored.elems)
             /\ \A i \in 1..Len(selectedItems') :
                    selectedItems'[i] = parseItem(lastOp'.stored.elems[i])
       /\ BagCardinality(menuRequests') < BagCardinality(menuRequests) =>
             /\ selectedItems' = selectedItems
             /\ storage' = storage]_vars

\* C14 witness: the entry restored from the previous session is still in the
\* list after a snapshot arrived that shows the item flagged
SelectionsNotRevalidatedWitness ==
    /\ phase = "running"
    /\ ~loading
    /\ menuData # NULL
    /\ selectedItems # <<>>
    /\ selectedItems[1] = Item("a", "undefined")
    /\ \E p \in Positions(menuData) :
          /\ ItemAt(menuData, p).id = "a"
          /\ Boolean(ItemAt(menuData, p).isFlagged)

\* C15: an item whose trimmed allergens include an excluded allergen (same
\* string, same case) is rejected whatever dietary tags are active and whatever
\* the item's vegetarian and vegan marks are.
ExcludedAllergenRejects ==
    lastOp.op = "matchesDietaryFilter" =>
        ((/\ lastOp.item.allergens # NULL
          /\ \E i \in 1..Len(lastOp.item.allergens.val) :
                \E excluded \in allergenFilters : trim(lastOp.item.allergens.val[i]) = excluded)
            => ~lastOp.result)

\* C15 witness: 'Peanuts' is excluded, the vegetarian filter is active, and a
\* vegetarian item listing ' Peanuts ' is rejected
ExcludedAllergenRejectsWitness ==
    /\ lastOp.op = "matchesDietaryFilter"
    /\ allergenFilters = {Peanuts}
    /\ dietaryFilters = {"vegetarian"}
    /\ lastOp.item.allergens = Some(<<PeanutsSp>>)
    /\ lastOp.item.isVegetarian
    /\ ~lastOp.result

\* Whether an item lists an excluded allergen
HasExcluded(item) ==
    /\ item.allergens # NULL
    /\ \E i \in 1..Len(item.allergens.val) : trim(item.allergens.val[i]) \in allergenFilters

\* C16: an item without excluded allergen is accepted when no dietary tag is
\* active, and otherwise exactly when it satisfies at least one active tag.
DietaryTagsAreOr ==
    (lastOp.op = "matchesDietaryFilter" /\ ~HasExcluded(lastOp.item)) =>
        /\ dietaryFilters = {} => lastOp.result
        /\ dietaryFilters # {} =>
              (lastOp.result <=>
                  \/ "vegetarian" \in dietaryFilters /\ lastOp.item.isVegetarian
                  \/ "vegan" \in dietaryFilters /\ lastOp.item.isVegan)

\* C16 witness: both tags active, 'peanuts' excluded; an item that lists
\* 'Peanuts', is vegetarian and is not vegan is accepted
DietaryTagsAreOrWitness ==
    /\ lastOp.op = "matchesDietaryFilter"
    /\ dietaryFilters = {"vegetarian", "vegan"}
    /\ allergenFilters = {peanuts}
    /\ lastOp.item.allergens = Some(<<Peanuts>>)
    /\ lastOp.item.isVegetarian
    /\ ~lastOp.item.isVegan
    /\ lastOp.result

\* C17: calculateTotals gives the same six totals for every permutation of
\* the list (integer-valued nutrient fields).
TotalsAreCommutative ==
    lastOp.op = "calculateTotals" =>
        \A perm \in Permutations(1..Len(lastOp.items)) :
            calculateTotals([i \in 1..Len(lastOp.items) |-> lastOp.items[perm[i]]])
                = lastOp.result

\* C17 witness: three different items (numbers, strings with units, 'N/A'),
\* totalled to 500 calories and 17 g of protein
TotalsAreCommutativeWitness ==
    /\ lastOp.op = "calculateTotals"
    /\ Len(lastOp.items) = 3
    /\ Cardinality({lastOp.items[i].id : i \in 1..3}) = 3
    /\ lastOp.result.calories = Num(500)
    /\ lastOp.result.protein = Num(17)

\* The value of a run of digits, by place value
RECURSIVE ValueOf(_)
ValueOf(ds) ==
    IF ds = <<>> THEN 0
    ELSE DigitVal(Head(ds)) * Pow10(Len(ds) - 1) + ValueOf(Tail(ds))

IsDigit(c) == c \in {"0", "1", "2", "3", "4", "5", "6", "7", "8", "9"}

\* What is left of a string once everything but digits and points is removed
Kept(str) == SelectSeq(str, LAMBDA c : IsDigit(c) \/ c = ".")

\* A numeral: digits with at most one point among them
IsNumeral(k) ==
    /\ \E i \in 1..Len(k) : IsDigit(k[i])
    /\ Cardinality({i \in 1..Len(k) : k[i] = "."}) <= 1

\* The number of digits after the point of a numeral
FractionLen(k) ==
    IF \E i \in 1..Len(k) : k[i] = "."
    THEN Len(k) - (CHOOSE i \in 1..Len(k) : k[i] = ".")
    ELSE 0

\* C18: the parser returns a number as it is, 0 for 'N/A', and for any other
\* string the number denoted by its digits and point, 0 when no digit is left;
\* parse('N/A') = 0, parse('140mg') = 140, parse(250) = 250, parse('') = 0.
ParserRule ==
    lastOp.op = "parseNutritionValue" =>
        LET value == lastOp.value
            r == lastOp.result
        IN /\ value.k = "number" => r = value.num
           /\ value = StringValue(NA) => r = Num(0)
           /\ (value.k = "string" /\ value.str # NA) =>
                 /\ (~\E i \in 1..Len(value.str) : IsDigit(value.str[i])) => r = Num(0)
                 /\ IsNumeral(Kept(value.str)) =>
                       r.m * Pow10(FractionLen(Kept(value.str)))
                          = ValueOf(SelectSeq(value.str, IsDigit)) * Pow10(r.e)
           /\ value = StringValue(Mg140) => r = Num(140)
           /\ value = NumberValue(Num(250)) => r = Num(250)
           /\ value = StringValue(EmptyStr) => r = Num(0)

\* C18 witness: '-1.5' parses to 1.5: the sign is removed with the letters
ParserRuleWitness ==
    /\ lastOp.op = "parseNutritionValue"
    /\ lastOp.value = StringValue(<<"-", "1", ".", "5">>)
    /\ lastOp.result = [m |-> 15, e |-> 1]

\* C19: percentage(current, goal) is 0 for a goal of 0 and otherwise
\* current / goal * 100 rounded to a nearest integer and capped at 100; it lies
\* in 0..100 for current >= 0 and goal > 0.
PercentageRule ==
    lastOp.op = "renderProgressBar" =>
        LET c == lastOp.current
            g == lastOp.goal
            r == lastOp.percentage
            \* current / goal * 100 = n / d
            n == c.m * 100 * Pow10(g.e)
            d == g.m * Pow10(c.e)
        IN /\ g = Num(0) => r = 0
           /\ g.m > 0 =>
                 /\ r \in 0..100
                 /\ r = 100 => 2 * n >= 199 * d
                 /\ 2 * n > 199 * d => r = 100
                 /\ r < 100 => (2 * (r * d - n) <= d /\ 2 * (n - r * d) <= d)
           /\ (c = Num(0) /\ g = Num(2000)) => r = 0
           /\ (c = Num(1600) /\ g = Num(2000)) => r = 80
           /\ (c = Num(2400) /\ g = Num(2000)) => r = 100
           /\ (c = Num(100) /\ g = Num(0)) => r = 0

\* C19 witness: 2400 of 2000 is capped at 100
PercentageRuleWitness ==
    /\ lastOp.op = "renderProgressBar"
    /\ lastOp.current = Num(2400)
    /\ lastOp.goal = Num(2000)
    /\ lastOp.percentage = 100

\* The tier a bar colour stands for
TierOf(color) ==
    CASE color = "bg-green-500"  -> "on track"
      [] color = "bg-yellow-500" -> "approaching"
      [] color = "bg-red-500"    -> "exceeded"

\* C20: a percentage below 80 is 'on track', one from 80 to 99 'approaching',
\* one of 100 or more 'exceeded', and nothing else; a total at or above a
\* positive goal is 'exceeded'.
TieringRule ==
    /\ lastOp.op \in {"getProgressColor", "renderProgressBar"} =>
          /\ lastOp.color \in {"bg-green-500", "bg-yellow-500", "bg-red-500"}
          /\ TierOf(lastOp.color) = "on track" <=> lastOp.percentage < 80
          /\ TierOf(lastOp.color) = "approaching" <=> lastOp.percentage \in 80..99
          /\ TierOf(lastOp.color) = "exceeded" <=> lastOp.percentage >= 100
    /\ lastOp.op = "renderProgressBar" =>
          ((/\ lastOp.goal.m > 0
            /\ lastOp.current.m * Pow10(lastOp.goal.e) >= lastOp.goal.m * Pow10(lastOp.current.e))
              => TierOf(lastOp.color) = "exceeded")

\* C20 witness: a total equal to its goal is shown as exceeded
TieringRuleWitness ==
    /\ lastOp.op = "renderProgressBar"
    /\ lastOp.current = lastOp.goal
    /\ lastOp.goal.m > 0
    /\ lastOp.color = "bg-red-500"


\* The handlers' branches that set a banner
BannerSetters == {"toggleDenied", "flagSuccess", "flagFailure"}

UpdatingMarkerPerItem ==
    Running =>
        \A id \in ItemIds :
            flaggingItemId = id <=> \E req \in BagToSet(flagRequests) : req.itemId = id


\* C29: a successful toggle sets the flag of the items with the request's id
\* in the meal with the request's meal name, in every station of that meal,
\* to the response's value, and leaves every other item, the date, the
\* activeMeal and the names of meals and stations as they were.
ToggleChangesTargetsOnly ==
    [][(lastOp'.op = "flagSuccess" /\ menuData # NULL) =>
          /\ menuData' # NULL
          /\ menuData'.date = menuData.date
          /\ menuData'.activeMeal = menuData.activeMeal
          /\ Positions(menuData') = Positions(menuData)
          /\ \A p \in Positions(menuData) :
                /\ MealNameAt(menuData', p) = MealNameAt(menuData, p)
                /\ menuData'.meals[p[1]].stations[p[2]].name
                      = menuData.meals[p[1]].stations[p[2]].name
                /\ ItemAt(menuData', p).id = ItemAt(menuData, p).id
                /\ ItemAt(menuData', p).isFlagged =
                      IF p \in Targets(menuData, lastOp'.req)
                      THEN lastOp'.isFlagged
                      ELSE ItemAt(menuData, p).isFlagged]_vars

\* C29 witness: item a is flagged in both Lunch stations while Dinner's item
\* a and Lunch's item b keep their unflagged value
ToggleChangesTargetsOnlyWitness ==
    /\ lastOp.op = "flagSuccess"
    /\ lastOp.req.mealName = Lunch /\ lastOp.req.itemId = "a"
    /\ menuData # NULL
    /\ ItemAt(menuData, <<1, 1, 1>>).isFlagged = "true"
    /\ ItemAt(menuData, <<1, 2, 1>>).isFlagged = "true"
    /\ ItemAt(menuData, <<1, 1, 2>>).isFlagged = "false"
    /\ ItemAt(menuData, <<2, 1, 1>>).isFlagged = "false"

\* The path from the snapshot to the items a request is about
AffectedPath(menu, req) ==
    {<<>>}
    \cup {<<p[1]>> : p \in {p \in Positions(menu) : MealNameAt(menu, p) = req.mealName}}
    \cup {<<p[1], p[2]>> : p \in Targets(menu, req)}
    \cup Targets(menu, req)

\* C24: the rewrite on flag success allocates the snapshot, the named meal,
\* the stations holding an item with the toggled id and those items, and
\* nothing else: every other meal and station is the object it was.
CopyOnWriteAlongPath ==
    [][(lastOp'.op = "flagSuccess" /\ menuData # NULL) =>
          lastOp'.fresh = AffectedPath(menuData, lastOp'.req)]_vars


\* C26: a successful toggle leaves the selection list as it was when the
\* result is 'unflagged' and removes the entries with the toggled id, and
\* nothing else, when it is 'flagged'; a failed toggle and the arrival of a
\* menu fetch response leave the list as it was. The entries that stay keep
\* every field value, their own flagged value included.
SelectionEntriesAreCopies ==
    [][/\ lastOp'.op = "flagSuccess" =>
             selectedItems' = IF lastOp'.isFlagged = "true"
                              THEN WithoutId(selectedItems, lastOp'.req.itemId)
                              ELSE selectedItems
       /\ lastOp'.op \in {"flagFailure", "fetchSuccess", "fetchFailure"} =>
             selectedItems' = selectedItems]_vars

\* C26 witness: the snapshot now shows the toggled item with the value
\* 'false' while its selection entry still has no flagged value
SelectionEntriesAreCopiesWitness ==
    /\ lastOp.op = "flagSuccess"
    /\ lastOp.isFlagged = "false"
    /\ menuData # NULL
    /\ \A p \in Targets(menuData, lastOp.req) : ItemAt(menuData, p).isFlagged = "false"
    /\ \E i \in 1..Len(selectedItems) :
          selectedItems[i] = Item(lastOp.req.itemId, "undefined")


\* C28: a flag-toggle request is issued only while the snapshot held in
\* memory is the one for today's date.
RequestOnlyOnTodaysSnapshot ==
    [][BagCardinality(flagRequests') > BagCardinality(flagRequests) =>
          /\ menuData # NULL
          /\ menuData.date = format(now)]_vars


\* C22: whatever else is in flight and whatever was issued later, a menu
\* response that lands becomes the snapshot, also when it answers a request
\* for a date that is no longer the selected one; a toggle response that
\* lands rewrites the snapshot held at that moment; a failed response leaves
\* it. So the snapshot after two responses is the one the later landing made.
LastLandingResponseWins ==
    [][/\ lastOp'.op = "fetchSuccess" => menuData' = lastOp'.data
       /\ (lastOp'.op = "flagSuccess" /\ menuData # NULL) =>
             /\ menuData' # NULL
             /\ menuData'.date = menuData.date
             /\ \A p \in Positions(menuData) :
                   ItemAt(menuData', p).isFlagged =
                      IF p \in Targets(menuData, lastOp'.req)
                      THEN lastOp'.isFlagged
                      ELSE ItemAt(menuData, p).isFlagged
       /\ lastOp'.op \in {"fetchFailure", "flagFailure"} => menuData' = menuData]_vars

\* C22 witness: the response to a superseded request landed last and is the
\* snapshot, although another date is selected
LastLandingResponseWinsWitness ==
    /\ lastOp.op = "fetchSuccess"
    /\ menuRequests = EmptyBag
    /\ lastOp.req.date # format(selectedDate)
    /\ menuData # NULL
    /\ menuData.date = lastOp.req.date


\* C21: a reset sets the draft to calories 2000, protein 50, fat 65,
\* carbohydrates 300, sugar 50, sodium 2300 and leaves the committed goals
\* and the stored goals as they were; a save sets the committed goals and
\* the stored goals to the draft; once the page is mounted, no other step
\* changes the committed or the stored goals.
ResetIsDraftOnly ==
    [][/\ lastOp'.op = "goalsReset" =>
             /\ draftGoals' = [calories |-> 2000, protein |-> 50, fat |-> 65,
                               carbohydrates |-> 300, sugar |-> 50, sodium |-> 2300]
             /\ nutritionGoals' = nutritionGoals
             /\ goalsStorage' = goalsStorage
       /\ lastOp'.op = "goalsSave" =>
             /\ nutritionGoals' = draftGoals
             /\ loadNutritionGoals(goalsStorage') = draftGoals
       /\ (nutritionGoals' # nutritionGoals \/ goalsStorage' # goalsStorage) =>
             lastOp'.op \in {"goalsSave", "mount"}]_vars

\* C21 witness: after a reset the draft is the baseline while the committed
\* and the stored goals are still the ones saved before
ResetIsDraftOnlyWitness ==
    /\ lastOp.op = "goalsReset"
    /\ draftGoals = getDefaultGoals
    /\ nutritionGoals # getDefaultGoals
    /\ loadNutritionGoals(goalsStorage) = nutritionGoals


\* C27: a menu fetch that fails, by a transport error or by a response with
\* success false, leaves the page running, leaves the snapshot, the selection
\* list, the goals and both stored copies as they were, sets an error message
\* and clears the loading indicator.
FailedFetchIsNotFatal ==
    [][lastOp'.op = "fetchFailure" =>
          /\ phase' = "running"
          /\ menuData' = menuData
          /\ error' \in {ErrNoMenu, ErrFetch}
          /\ loading' = FALSE
          /\ selectedItems' = selectedItems
          /\ storage' = storage
          /\ nutritionGoals' = nutritionGoals
          /\ draftGoals' = draftGoals
          /\ goalsStorage' = goalsStorage]_vars

\* C27 witness: a refresh failed while a snapshot, a selection and saved
\* goals were held; all three are still there next to the error message
FailedFetchIsNotFatalWitness ==
    /\ lastOp.op = "fetchFailure"
    /\ phase = "running"
    /\ menuData # NULL
    /\ selectedItems # <<>>
    /\ nutritionGoals = SavedGoals
    /\ error = ErrFetch
    /\ ~loading


\* C30: after adds, removes, clears and cascade removals processed with
\* storage working, a restart followed by the hydration of the mount gives
\* the selection list held before the restart, entry by entry, and leaves
\* the stored value as it was before the restart.
PersistHydrateRoundTrip ==
    [][(lastOp.op = "restart" /\ lastOp'.op = "mount") =>
          /\ phase' = "running"
          /\ selectedItems' = lastOp.list
          /\ storage' = lastOp.stored]_vars

====
